---- MODULE Spec2Model ----
(***************************************************************************)
(* Model of scripts/bitbucket.py: the Bitbucket build-status client.       *)
(*                                                                         *)
(* One Python process calls set_build_status and request_access_token any  *)
(* number of times.  Each call is a straight line of code around one       *)
(* blocking requests.post; the model cuts it at the points where the       *)
(* environment acts (the caller supplies arguments, the remote answers).   *)
(* Python semantics are those of Python 3.                                 *)
(***************************************************************************)
EXTENDS Integers, Sequences, FiniteSets, TLC

VARIABLES
    pc,                 \* position of the process: idle, sbs_post, sbs_check,
                        \*   rat_post, rat_check, done, exited
    call,               \* arguments of the call in progress
    response,           \* the requests.Response object r of the call
    sent,               \* HTTP requests handed to the transport in this call
    stderr,             \* text written to sys.stderr in this call
    trace,              \* order of the observable events of this call
    outcome,            \* how the call ended: return, raise or exit
    warnings_disabled,  \* process-wide: urllib3 warnings switched off
    exit_status,        \* <<>> while the process runs, <<n>> after exit(n)
    ncalls,             \* calls started by the process so far
    nposts              \* HTTP requests sent by the process so far

vars == <<pc, call, response, sent, stderr, trace, outcome,
          warnings_disabled, exit_status, ncalls, nposts>>

\* Bound on the number of calls one process makes.
MaxCalls == 3

-----------------------------------------------------------------------------
(* Inputs *)

SERVER == "Bitbucket Server"
CLOUD == "Bitbucket Cloud"

\* driver values a caller may pass ("GitHub" stands for any unrecognized one)
Drivers == {SERVER, CLOUD, "GitHub"}

\* verify_ssl as a Python value: True, False, or a falsy value that is not False
VerifyValues == {"True", "False", "None"}

\* endpoint as its pieces, every "/" after the host a piece of its own
Endpoints == { <<"https://git.example.com">>, <<"https://git.example.com", "/">> }

StatusCodes == {200, 201, 204, 400, 401, 403, 404, 500}

\* JSON objects the remote may answer with: string-valued, keys among KeyOrder
KeyOrder == <<"access_token", "error">>
KeyValues == [access_token |-> {"t0k-1", "t0k-2"}, error |-> {"invalid_grant"}]
Keys == {KeyOrder[i] : i \in 1..Len(KeyOrder)}
Objects == UNION { [S -> UNION {KeyValues[k] : k \in S}] : S \in SUBSET Keys }
JsonObjects == {o \in Objects : \A k \in DOMAIN o : o[k] \in KeyValues[k]}
EmptyObject == [k \in {} |-> ""]

\* A text is described by what it holds: a JSON object, a JSON array ([]),
\* JSON null, something that is not JSON, or nothing at all.
PlainKinds == {"object", "array", "null", "not_json", "empty"}
PlainTexts == {[kind |-> "object", obj |-> o] : o \in JsonObjects}
                 \cup {[kind |-> k, obj |-> EmptyObject] : k \in PlainKinds \ {"object"}}
NoText == [kind |-> "empty", obj |-> EmptyObject]

\* A response body is a plain text or a JSON string literal, whose decoded
\* content (inner) is again a plain text.
Bodies == {[kind |-> t.kind, obj |-> t.obj, inner |-> NoText] : t \in PlainTexts}
            \cup {[kind |-> "string", obj |-> EmptyObject, inner |-> t] : t \in PlainTexts}

-----------------------------------------------------------------------------
(* Python values and the json module, as far as the code uses them *)

\* ERROR_MAP with the 400 entry relabelled to the code it is keyed by
ERROR_MAP_relabelled(code) ==
    CASE code = 403 -> "HTTP 403 Forbidden - Does your bitbucket user have rights to the repo?"
      [] code = 404 -> "HTTP 404 Not Found - Does the repo supplied exist?"
      [] code = 400 -> "HTTP 400 Bad Request - Are your bitbucket credentials correct?"
      [] OTHER -> ""

\* ERROR_MAP: the canned messages, and the codes ERROR_MAP[code] finds
ERROR_MAP(code) ==
    CASE code = 403 -> "HTTP 403 Forbidden - Does your bitbucket user have rights to the repo?"
      [] code = 404 -> "HTTP 404 Not Found - Does the repo supplied exist?"
      [] code = 400 -> "HTTP 401 Unauthorized - Are your bitbucket credentials correct?"
      [] OTHER -> ""

ERROR_MAP_keys == {403, 404, 400}

\* A computation either yields a value or raises an exception with a message.
Value(v) == [ok |-> TRUE, exc |-> "", val |-> v]
Raise(e, m) == [ok |-> FALSE, exc |-> e, val |-> m]

\* json.loads on a plain text: the Python object it yields, or ValueError
json_loads(t) ==
    CASE t.kind = "object" -> [ok |-> TRUE, exc |-> "", type |-> "dict", dict |-> t.obj]
      [] t.kind = "array"  -> [ok |-> TRUE, exc |-> "", type |-> "list", dict |-> EmptyObject]
      [] t.kind = "null"   -> [ok |-> TRUE, exc |-> "", type |-> "NoneType", dict |-> EmptyObject]
      [] OTHER             -> [ok |-> FALSE, exc |-> "ValueError", type |-> "", dict |-> EmptyObject]

\* r.json(): json.loads on the body; a JSON string literal yields a Python str
r_json(r) ==
    IF r.body.kind = "string"
    THEN [ok |-> TRUE, exc |-> "", type |-> "str", dict |-> EmptyObject, str |-> r.body.inner]
    ELSE LET l == json_loads(r.body)
         IN  [ok |-> l.ok, exc |-> l.exc, type |-> l.type, dict |-> l.dict, str |-> NoText]

\* sorted(keys), as sort_keys=True orders them
SortKeys(S) == SelectSeq(KeyOrder, LAMBDA k : k \in S)

RECURSIVE Join(_, _)
Join(items, sep) ==
    IF items = <<>> THEN ""
    ELSE IF Len(items) = 1 THEN items[1]
    ELSE items[1] \o sep \o Join(Tail(items), sep)

\* "key":"value" pairs of a dict in the given key order, with the given
\* quote mark and key/value separator
Items(d, order, q, colon) ==
    [i \in 1..Len(order) |-> q \o order[i] \o q \o colon \o q \o d[order[i]] \o q]

\* json.dumps(v, sort_keys=True, indent=4, separators=(',', ':'))
json_dumps(v) ==
    CASE v.type = "dict" ->
            IF DOMAIN v.dict = {} THEN "{}"
            ELSE "{" \o "\n    "
                 \o Join(Items(v.dict, SortKeys(DOMAIN v.dict), "\"", ":"), "," \o "\n    ")
                 \o "\n" \o "}"
      [] v.type = "list" -> "[]"
      [] OTHER -> "null"

\* json_pp(json_object)
json_pp(v) ==
    IF v.type = "dict" THEN Value(json_dumps(v) \o "\n")
    ELSE IF v.type = "str"
         THEN LET l == json_loads(v.str)
              IN  IF l.ok THEN Value(json_dumps(l) \o "\n")
                  ELSE Raise(l.exc, "Expecting value")
    ELSE Raise("NameError", "Must be a dictionary or json-formatted string")

\* try: msg = ERROR_MAP[r.status_code]  except KeyError: msg = json_pp(r.json())
error_message(r) ==
    IF r.status_code \in ERROR_MAP_keys THEN Value(ERROR_MAP(r.status_code))
    ELSE LET j == r_json(r)
         IN  IF j.ok THEN json_pp(j) ELSE Raise(j.exc, "Expecting value")

\* err(txt): sys.stderr.write(str(txt) + "\n")
err(txt) == txt \o "\n"

\* err(txt) without the debug test
debug_err_always(debug, txt) == <<err(txt)>>

\* if debug: err(txt)
debug_err(debug, txt) == IF debug THEN <<err(txt)>> ELSE <<>>

\* The body as the remote wrote it; q is the quote mark at this nesting.
RawText(t, q) ==
    CASE t.kind = "object" ->
            "{" \o Join(Items(t.obj, SortKeys(DOMAIN t.obj), q, ": "), ", ") \o "}"
      [] t.kind = "array" -> "[]"
      [] t.kind = "null" -> "null"
      [] t.kind = "not_json" -> "<html>Bad Gateway</html>"
      [] OTHER -> ""

\* bs is the backslash as it shows: once in the bytes, twice in their repr
RawBody(b, bs) ==
    IF b.kind = "string" THEN "\"" \o RawText(b.inner, bs \o "\"") \o "\""
    ELSE RawText(b, "\"")

\* str(r) and str(r.content) of a requests.Response
str_r(r) == "<Response [" \o ToString(r.status_code) \o "]>"
str_content(r) == "b'" \o RawBody(r.body, "\\\\") \o "'"

\* BitbucketOAuth.__call__: the Authorization header it sets
BitbucketOAuth(access_token) == "Bearer " \o access_token

-----------------------------------------------------------------------------
(* set_build_status *)

\* The driver check without its else branch: every driver passes
KnownDriver_any(driver) == TRUE

\* The driver is one of the two the if/elif chain knows; else: exit(1)
KnownDriver(driver) == driver \in {SERVER, CLOUD}

\* The warning switch tested with "not verify_ssl" in place of "is False"
SquelchWarnings_falsy(driver, verify_ssl) == driver = SERVER /\ verify_ssl # "True"

\* if driver == 'Bitbucket Server': ... if verify_ssl is False: disable_warnings()
SquelchWarnings(driver, verify_ssl) == driver = SERVER /\ verify_ssl = "False"

\* endpoint.rstrip('/')
RECURSIVE rstrip(_)
rstrip(e) ==
    IF e # <<>> /\ e[Len(e)] = "/" THEN rstrip(SubSeq(e, 1, Len(e) - 1)) ELSE e

\* post_url, as the pieces format() joins
post_url(c) ==
    IF c.driver = SERVER
    THEN rstrip(c.endpoint) \o <<"/rest/build-status/1.0/commits/", c.commit_sha>>
    ELSE IF c.driver = CLOUD
    THEN <<"https://api.bitbucket.org/2.0/repositories/", c.repo,
           "/commit/", c.commit_sha, "/statuses/build">>
    ELSE <<>>

\* data: the JSON body of the POST
data(c) == [state |-> c.state, key |-> c.key, name |-> c.name, url |-> c.url,
            description |-> c.description]

\* HTTPBasicAuth given to requests.post whatever the driver
auth_always_basic(c) ==
    [type |-> "HTTPBasicAuth", authorization |-> "Basic",
     credentials |-> <<c.username, c.password>>]

\* The auth object given to requests.post, and the header or credentials it carries
auth(c) ==
    IF c.driver = CLOUD
    THEN [type |-> "BitbucketOAuth", authorization |-> BitbucketOAuth(c.access_token),
          credentials |-> <<>>]
    ELSE [type |-> "HTTPBasicAuth", authorization |-> "Basic",
          credentials |-> <<c.username, c.password>>]

\* verify=... as requests.post receives it; the Cloud call does not pass it
verify(c) == IF c.driver = SERVER THEN c.verify_ssl ELSE "unset"

\* The requests.post of lines 85-97 issued a second time
status_requests_retry(c) ==
    LET req == [method |-> "POST", url |-> post_url(c), auth |-> auth(c),
                verify |-> verify(c), json |-> data(c)]
    IN  IF c.driver \in {CLOUD, SERVER} THEN <<req, req>> ELSE <<>>

\* The requests.post calls of lines 85-97: one for a known driver, none otherwise
status_requests(c) ==
    IF c.driver \in {CLOUD, SERVER}
    THEN << [method |-> "POST", url |-> post_url(c), auth |-> auth(c),
             verify |-> verify(c), json |-> data(c)] >>
    ELSE <<>>

\* The Cloud success codes with the Server's 204 among them
cloud_success_with_204 == {200, 201, 204}

\* Status codes each driver takes for success
cloud_success == {200, 201}
server_success == {204}

\* The status check of lines 104-119: TRUE when the code raises
status_failed(driver, code) ==
    \/ driver = CLOUD /\ code \notin cloud_success
    \/ driver = SERVER /\ code \notin server_success

NoCall == [op |-> "none"]
NoResponse == [status_code |-> 0, body |-> [kind |-> "empty", obj |-> EmptyObject, inner |-> NoText]]
NoOutcome == [kind |-> "none", exc |-> "", val |-> ""]

StatusCalls ==
    [op : {"set_build_status"}, driver : Drivers, debug : BOOLEAN,
     verify_ssl : VerifyValues, endpoint : Endpoints,
     repo : {"myorg/myrepo"}, commit_sha : {"abc123"}, state : {"SUCCESSFUL"},
     key : {"ci"}, name : {"build"}, url : {"https://ci.example.com/1"},
     description : {"ok"}, access_token : {"t0k-1"},
     username : {"bob"}, password : {"hunter2"}]

TokenCalls ==
    [op : {"request_access_token"}, client_id : {"id"}, secret : {"s3cret"},
     debug : BOOLEAN]

Responses == [status_code : StatusCodes, body : Bodies]

\* Lines 51-83: URL construction, the warning switch, the driver check
set_build_status_begin(c) ==
    /\ pc = "idle"
    /\ ncalls < MaxCalls
    /\ call' = c
    /\ ncalls' = ncalls + 1
    /\ response' = NoResponse
    /\ sent' = <<>>
    /\ nposts' = nposts
    /\ LET squelch == SquelchWarnings(c.driver, c.verify_ssl)
           known == KnownDriver(c.driver)
       IN  /\ warnings_disabled' = (warnings_disabled \/ squelch)
           /\ stderr' = (IF squelch THEN debug_err(c.debug, "SSL warnings disabled\n") ELSE <<>>)
                         \o (IF known THEN <<>>
                             ELSE <<err("Invalid driver, must be: Bitbucket Server or Bitbucket Cloud")>>)
           /\ trace' = <<"call">>
                         \o (IF squelch THEN <<"disable_warnings">> ELSE <<>>)
                         \o (IF squelch /\ c.debug THEN <<"stderr">> ELSE <<>>)
                         \o (IF known THEN <<>> ELSE <<"stderr", "exit">>)
           /\ pc' = (IF known THEN "sbs_post" ELSE "exited")
           /\ exit_status' = (IF known THEN exit_status ELSE <<1>>)
           /\ outcome' = (IF known THEN NoOutcome
                          ELSE [kind |-> "exit", exc |-> "SystemExit", val |-> "1"])

\* Lines 85-97: the blocking requests.post; the remote answers with r
set_build_status_post(r) ==
    /\ pc = "sbs_post"
    /\ LET reqs == status_requests(call)
       IN  /\ sent' = sent \o reqs
           /\ nposts' = nposts + Len(reqs)
           /\ response' = (IF reqs = <<>> THEN NoResponse ELSE r)
           /\ trace' = trace \o [i \in 1..Len(reqs) |-> "post"]
                             \o (IF reqs = <<>> THEN <<>> ELSE <<"response">>)
    /\ pc' = "sbs_check"
    /\ UNCHANGED <<call, stderr, outcome, warnings_disabled, exit_status, ncalls>>

\* Lines 99-119: the debug line, then the status check
set_build_status_check ==
    /\ pc = "sbs_check"
    /\ LET unbound == response = NoResponse   \* no branch of lines 85-97 bound r
           dbg == IF unbound THEN <<>>
                  ELSE debug_err(call.debug, "Request result: " \o str_r(response))
           m == error_message(response)
       IN  /\ stderr' = stderr \o dbg
           /\ outcome' =
                IF unbound /\ call.debug
                THEN [kind |-> "raise", exc |-> "UnboundLocalError", val |-> "r"]
                ELSE IF status_failed(call.driver, response.status_code)
                THEN [kind |-> "raise",
                      exc |-> IF m.ok THEN "BitbucketException" ELSE m.exc,
                      val |-> m.val]
                ELSE [kind |-> "return", exc |-> "", val |-> "None"]
           /\ trace' = trace \o [i \in 1..Len(dbg) |-> "stderr"] \o <<outcome'.kind>>
    /\ pc' = "done"
    /\ UNCHANGED <<call, response, sent, warnings_disabled, exit_status, ncalls, nposts>>

-----------------------------------------------------------------------------
(* request_access_token *)

\* The requests.post of lines 123-127
token_requests(c) ==
    << [method |-> "POST", url |-> <<"https://bitbucket.org/site/oauth2/access_token">>,
        auth |-> [type |-> "HTTPBasicAuth", authorization |-> "Basic",
                  credentials |-> <<c.client_id, c.secret>>],
        verify |-> "unset", data |-> [grant_type |-> "client_credentials"]] >>

\* r.json()['access_token'] of line 140
access_token_of(r) ==
    LET j == r_json(r)
    IN  IF ~j.ok THEN Raise(j.exc, "Expecting value")
        ELSE IF j.type # "dict" THEN Raise("TypeError", "indices")
        ELSE IF "access_token" \notin DOMAIN j.dict THEN Raise("KeyError", "'access_token'")
        ELSE Value(j.dict["access_token"])

\* Lines 122-127: the blocking requests.post; the remote answers with r
request_access_token_post(c, r) ==
    /\ pc = "idle"
    /\ ncalls < MaxCalls
    /\ call' = c
    /\ ncalls' = ncalls + 1
    /\ LET reqs == token_requests(c)
       IN  /\ sent' = reqs
           /\ nposts' = nposts + Len(reqs)
           /\ trace' = <<"call">> \o [i \in 1..Len(reqs) |-> "post"] \o <<"response">>
    /\ response' = r
    /\ stderr' = <<>>
    /\ outcome' = NoOutcome
    /\ pc' = "rat_check"
    /\ UNCHANGED <<warnings_disabled, exit_status>>

\* Lines 129-140: the debug line, the status check, the token
request_access_token_check ==
    /\ pc = "rat_check"
    /\ LET dbg == debug_err(call.debug,
                            "Access token result: " \o str_r(response) \o str_content(response))
           m == error_message(response)
           t == access_token_of(response)
       IN  /\ stderr' = stderr \o dbg
           /\ outcome' =
                IF response.status_code # 200
                THEN [kind |-> "raise",
                      exc |-> IF m.ok THEN "BitbucketException" ELSE m.exc,
                      val |-> m.val]
                ELSE IF t.ok THEN [kind |-> "return", exc |-> "", val |-> t.val]
                ELSE [kind |-> "raise", exc |-> t.exc, val |-> t.val]
           /\ trace' = trace \o [i \in 1..Len(dbg) |-> "stderr"] \o <<outcome'.kind>>
    /\ pc' = "done"
    /\ UNCHANGED <<call, response, sent, warnings_disabled, exit_status, ncalls, nposts>>

-----------------------------------------------------------------------------
(* The process *)

\* The call is over (returned or raised); the caller goes on to its next call.
Return ==
    /\ pc = "done"
    /\ pc' = "idle"
    /\ call' = NoCall
    /\ response' = NoResponse
    /\ sent' = <<>>
    /\ stderr' = <<>>
    /\ trace' = <<>>
    /\ outcome' = NoOutcome
    /\ UNCHANGED <<warnings_disabled, exit_status, ncalls, nposts>>

Init ==
    /\ pc = "idle"
    /\ call = NoCall
    /\ response = NoResponse
    /\ sent = <<>>
    /\ stderr = <<>>
    /\ trace = <<>>
    /\ outcome = NoOutcome
    /\ warnings_disabled = FALSE
    /\ exit_status = <<>>
    /\ ncalls = 0
    /\ nposts = 0

Next ==
    \/ \E c \in StatusCalls : set_build_status_begin(c)
    \/ \E r \in Responses : set_build_status_post(r)
    \/ set_build_status_check
    \/ \E c \in TokenCalls, r \in Responses : request_access_token_post(c, r)
    \/ request_access_token_check
    \/ Return

Spec == Init /\ [][Next]_vars

-----------------------------------------------------------------------------
(* Properties *)

Done == pc = "done"
StatusDone == Done /\ call.op = "set_build_status"
TokenDone == Done /\ call.op = "request_access_token"
Raised == outcome.kind = "raise"
Count(seq, x) == Cardinality({i \in 1..Len(seq) : seq[i] = x})

\* C1: with driver Bitbucket Cloud set_build_status returns normally exactly
\* when the status code is 200 or 201, and with driver Bitbucket Server
\* exactly when it is 204; on every other code it raises.
C1_SuccessIffCode ==
    StatusDone =>
        /\ call.driver \in {CLOUD, SERVER}
        /\ outcome.kind \in {"return", "raise"}
        /\ call.driver = CLOUD =>
              (outcome.kind = "return" <=> response.status_code \in {200, 201})
        /\ call.driver = SERVER =>
              (outcome.kind = "return" <=> response.status_code = 204)

\* C1 witness: a Cloud call answered 204 has raised, a case of "204 fails on Cloud"
C1_Witness ==
    StatusDone /\ call.driver = CLOUD /\ response.status_code = 204 /\ Raised

\* C2: a failure on 403, 404 or 400 raises BitbucketException with the canned
\* message of that code, whatever the body, in both operations.
C2_CannedMessage ==
    (Done /\ Raised) =>
        /\ response.status_code = 403 =>
              /\ outcome.exc = "BitbucketException"
              /\ outcome.val = "HTTP 403 Forbidden - Does your bitbucket user have rights to the repo?"
        /\ response.status_code = 404 =>
              /\ outcome.exc = "BitbucketException"
              /\ outcome.val = "HTTP 404 Not Found - Does the repo supplied exist?"
        /\ response.status_code = 400 =>
              /\ outcome.exc = "BitbucketException"
              /\ outcome.val = "HTTP 401 Unauthorized - Are your bitbucket credentials correct?"

\* C2 witness: a token request answered 400 with a body that is a JSON object
\* has raised the canned text, not the JSON of the body
C2_Witness ==
    /\ TokenDone /\ Raised
    /\ response.status_code = 400
    /\ response.body.kind = "object" /\ DOMAIN response.body.obj = {"error"}
    /\ outcome.val = "HTTP 401 Unauthorized - Are your bitbucket credentials correct?"

\* The pretty-printed JSON of a body, where the body is JSON
IsJson(b) == b.kind \in {"object", "array", "null", "string"}
PrettyJson(b) ==
    CASE b.kind = "object" -> json_dumps([type |-> "dict", dict |-> b.obj])
      [] b.kind = "array" -> "[]"
      [] b.kind = "null" -> "null"
      [] OTHER -> RawBody(b, "\\")

\* C3: on a failing path with a status code outside {200, 201, 204, 403, 404,
\* 400}, the raised error's message is the pretty-printed JSON of the body.
C3_FallbackIsPrettyJson ==
    (Done /\ Raised /\ response.status_code \notin {200, 201, 204, 403, 404, 400}) =>
        /\ outcome.exc = "BitbucketException"
        /\ IsJson(response.body)
        /\ outcome.val \in {PrettyJson(response.body), PrettyJson(response.body) \o "\n"}

\* C4: every status code outside the driver's success set makes
\* set_build_status raise BitbucketException, whatever the body is.
C4_FailureIsBitbucketException ==
    (StatusDone /\ ( \/ call.driver = CLOUD /\ response.status_code \notin {200, 201}
                     \/ call.driver = SERVER /\ response.status_code # 204 )) =>
        /\ outcome.kind = "raise"
        /\ outcome.exc = "BitbucketException"

\* C5: request_access_token returns the access_token string of the body on
\* 200, and on every other code returns nothing and raises BitbucketException.
C5_TokenOrAuthError ==
    TokenDone =>
        /\ ( /\ response.status_code = 200
             /\ response.body.kind = "object"
             /\ "access_token" \in DOMAIN response.body.obj )
              => outcome = [kind |-> "return", exc |-> "",
                            val |-> response.body.obj["access_token"]]
        /\ response.status_code # 200 =>
              /\ outcome.kind = "raise"
              /\ outcome.exc = "BitbucketException"

\* C6: a set_build_status call with an unrecognized driver ends the process
\* at once with exit status 1: no request is sent and nothing is raised.
C6_InvalidDriverExits ==
    (call.op = "set_build_status" /\ call.driver \notin {SERVER, CLOUD}) =>
        /\ pc = "exited"
        /\ exit_status = <<1>>
        /\ outcome.kind = "exit"
        /\ sent = <<>>
        /\ Count(trace, "post") = 0
        /\ Count(trace, "raise") = 0
        /\ nposts = ncalls - 1

\* C6 witness: the process has exited in its second call, after one that posted
C6_Witness ==
    pc = "exited" /\ call.driver = "GitHub" /\ ncalls = 2 /\ nposts = 1

\* C7: every request of set_build_status carries the one scheme its driver
\* selects: Cloud the Bearer header of access_token and no username/password
\* and no verify; Server Basic with username/password, no token, and verify.
C7_AuthByDriver ==
    call.op = "set_build_status" =>
        \A i \in 1..Len(sent) :
            /\ call.driver = CLOUD =>
                  /\ sent[i].auth.type = "BitbucketOAuth"
                  /\ sent[i].auth.authorization = "Bearer " \o call.access_token
                  /\ sent[i].auth.credentials = <<>>
                  /\ sent[i].verify = "unset"
            /\ call.driver = SERVER =>
                  /\ sent[i].auth.type = "HTTPBasicAuth"
                  /\ sent[i].auth.credentials = <<call.username, call.password>>
                  /\ sent[i].auth.authorization = "Basic"
                  /\ sent[i].verify = call.verify_ssl

\* C7 witness: a Cloud call has sent its request with the Bearer header
C7_Witness ==
    /\ StatusDone /\ call.driver = CLOUD /\ Len(sent) = 1
    /\ sent[1].auth.authorization = "Bearer t0k-1"

\* The events of the call in flight that are a request, a response or its end
Exchange == SelectSeq(trace, LAMBDA e : e \in {"post", "response", "return", "raise"})

\* C8: a set_build_status call with a known driver and a request_access_token
\* call each send exactly one POST, before the outcome is decided, and none
\* after a failing response: the process has sent one request per call.
C8_OnePostPerCall ==
    /\ pc \in {"sbs_check", "rat_check"} =>
          Len(sent) = 1 /\ nposts = ncalls /\ Exchange = <<"post", "response">>
    /\ Done => Len(sent) = 1 /\ nposts = ncalls
                 /\ Exchange = <<"post", "response", outcome.kind>>
    /\ pc = "idle" => nposts = ncalls

\* C8 witness: the second call of the process has failed after its one POST
C8_Witness ==
    Done /\ Raised /\ response.status_code = 500 /\ ncalls = 2 /\ nposts = 2

\* C9: on a failing path, with debug set the response is written to stderr
\* right before the error is raised; without debug nothing is written to
\* stderr in the call.
C9_DebugGatesStderr ==
    (Done /\ Raised) =>
        IF call.debug
        THEN /\ stderr # <<>>
             /\ stderr[Len(stderr)] =
                    IF call.op = "set_build_status"
                    THEN "Request result: <Response [" \o ToString(response.status_code) \o "]>\n"
                    ELSE "Access token result: <Response [" \o ToString(response.status_code)
                         \o "]>" \o str_content(response) \o "\n"
             /\ Len(trace) >= 2
             /\ trace[Len(trace) - 1] = "stderr"
             /\ trace[Len(trace)] = "raise"
        ELSE stderr = <<>> /\ Count(trace, "stderr") = 0

\* C9 witness: a failed Server call without debug, warnings switched off in it
C9_Witness ==
    /\ StatusDone /\ Raised /\ ~call.debug
    /\ call.driver = SERVER /\ call.verify_ssl = "False"

\* C10: the warning switch goes on only in a set_build_status call with driver
\* Bitbucket Server and verify_ssl False, which still sends its POST; such a
\* call always leaves it on; and once on it is never switched off.
C10_WarningSwitch ==
    [][ /\ warnings_disabled => warnings_disabled'
        /\ (~warnings_disabled /\ warnings_disabled') =>
              /\ pc = "idle" /\ pc' = "sbs_post"
              /\ call'.op = "set_build_status"
              /\ call'.driver = SERVER
              /\ call'.verify_ssl = "False"
        /\ (pc = "idle" /\ call'.op = "set_build_status"
              /\ call'.driver = SERVER /\ call'.verify_ssl = "False") =>
              warnings_disabled'
        /\ (pc = "sbs_post" /\ call.driver = SERVER /\ call.verify_ssl = "False") =>
              /\ Len(sent') = 1
              /\ sent'[1].verify = "False" ]_vars

\* C10 witness: the switch is still on after a later Server call with verify_ssl True
C10_Witness ==
    /\ StatusDone /\ warnings_disabled
    /\ call.driver = SERVER /\ call.verify_ssl = "True"

====
